---- MODULE Spec2Model ----
(***************************************************************************)
(* Model of the http-next-links crate: the Link header parser              *)
(* (parser.rs), the try_find_map helper (utils.rs) and the driver          *)
(* NextLinks::from_str (lib.rs).                                           *)
(*                                                                         *)
(* A Rust &str is modelled as a sequence of one-character strings, so      *)
(* that every slice the code takes (strip_prefix, split_once, find, get,   *)
(* trim_*_matches) is computed character by character.                     *)
(***************************************************************************)
EXTENDS Naturals, Sequences, FiniteSets

\* ------------------------------------------------------------------------
\* Bounds of the input families.
\* ------------------------------------------------------------------------

\* Largest number of link-values a serialised header carries.
MaxLinkValues == 3

\* Largest number of pieces of arbitrary text appended to a header start.
MaxTail == 4

\* ------------------------------------------------------------------------
\* str primitives (core::str), as parser.rs and lib.rs use them.
\* ------------------------------------------------------------------------

\* StrExt::HTTP_WHITESPACE: [' ', '\t'].
HTTP_WHITESPACE == {" ", "\t"}

\* str::is_empty.
is_empty(s) == Len(s) = 0

\* The slice s[i..] with i a 1-based index of the first kept character.
From(s, i) == SubSeq(s, i, Len(s))

\* str::find with a set of characters: the 1-based index of the first
\* character of s that is in cs, 0 when there is none (None).
find(s, cs) ==
    IF \E i \in 1..Len(s) : s[i] \in cs
    THEN CHOOSE i \in 1..Len(s) : s[i] \in cs /\ \A j \in 1..(i - 1) : s[j] \notin cs
    ELSE 0

\* str::strip_prefix(c) is Some exactly when s starts with c.
starts_with(s, c) == Len(s) > 0 /\ s[1] = c

\* trim_start_matches(' '): the leading spaces trimmed, a tab kept.
trim_start_spaces(s) ==
    IF \E i \in 1..Len(s) : s[i] # " "
    THEN From(s, CHOOSE i \in 1..Len(s) :
                    s[i] # " " /\ \A j \in 1..(i - 1) : s[j] = " ")
    ELSE <<>>

\* StrExt::trim_start_http_whitespaces: trim_start_matches(HTTP_WHITESPACE).
trim_start_http_whitespaces(s) ==
    IF \E i \in 1..Len(s) : s[i] \notin HTTP_WHITESPACE
    THEN From(s, CHOOSE i \in 1..Len(s) :
                    s[i] \notin HTTP_WHITESPACE
                    /\ \A j \in 1..(i - 1) : s[j] \in HTTP_WHITESPACE)
    ELSE <<>>

\* StrExt::trim_end_http_whitespaces: trim_end_matches(HTTP_WHITESPACE).
trim_end_http_whitespaces(s) ==
    IF \E i \in 1..Len(s) : s[i] \notin HTTP_WHITESPACE
    THEN SubSeq(s, 1, CHOOSE i \in 1..Len(s) :
                         s[i] \notin HTTP_WHITESPACE
                         /\ \A j \in (i + 1)..Len(s) : s[j] \in HTTP_WHITESPACE)
    ELSE <<>>

\* u8::to_ascii_lowercase on the letters the inputs use; every other
\* character is its own lower case.
to_ascii_lowercase(c) ==
    CASE c = "R" -> "r"
      [] c = "E" -> "e"
      [] c = "L" -> "l"
      [] c = "N" -> "n"
      [] c = "X" -> "x"
      [] c = "T" -> "t"
      [] c = "P" -> "p"
      [] c = "V" -> "v"
      [] OTHER -> c

\* eq_ignore_ascii_case comparing the bytes as they are.
eq_case_sensitive(a, b) == a = b

\* str::eq_ignore_ascii_case.
eq_ignore_ascii_case(a, b) ==
    /\ Len(a) = Len(b)
    /\ \A i \in 1..Len(a) : to_ascii_lowercase(a[i]) = to_ascii_lowercase(b[i])

\* str::split(c): the pieces of s between the occurrences of c (an empty
\* piece between two adjacent occurrences, and at either end).
RECURSIVE split(_, _)
split(s, c) ==
    LET i == find(s, {c})
    IN  IF i = 0 THEN <<s>>
        ELSE <<SubSeq(s, 1, i - 1)>> \o split(From(s, i + 1), c)

\* ------------------------------------------------------------------------
\* Result and Option values.
\* ------------------------------------------------------------------------

Ok(v) == [ok |-> TRUE, val |-> v, err |-> ""]

Err(e) == [ok |-> FALSE, val |-> <<>>, err |-> e]

\* The messages of the Error values parser.rs builds.
ExpectedOpenAngle == "Expected '<' for uri"

ExpectedCloseAngle == "Expected '>' for uri"

ExpectedSeparatorOrTermination ==
    "Expected either ';' for next param, ',' for next uri or an empty string for termination"

MissingEquals == "Expected param"

UnclosedQuote == "Unclosed '\"' in param value"

\* ------------------------------------------------------------------------
\* parser.rs: ParamsIter and parse_uri.
\* ------------------------------------------------------------------------

\* enum ParamsIter { Params(&str), NextUri(&str) }.
Params(text) == [tag |-> "Params", text |-> text]

NextUri(text) == [tag |-> "NextUri", text |-> text]

\* new_without_trim with the text after ',' left as it is (parse_uri
\* trims the start of its argument anyway).
new_without_trim_after_comma(rest) ==
    IF starts_with(rest, ";")
    THEN Ok(Params(trim_start_http_whitespaces(Tail(rest))))
    ELSE IF starts_with(rest, ",")
    THEN Ok(NextUri(Tail(rest)))
    ELSE IF is_empty(rest)
    THEN Ok(NextUri(rest))
    ELSE Err(ExpectedSeparatorOrTermination)

\* ParamsIter::new_without_trim.
new_without_trim(rest) ==
    IF starts_with(rest, ";")
    THEN Ok(Params(trim_start_http_whitespaces(Tail(rest))))
    ELSE IF starts_with(rest, ",")
    THEN Ok(NextUri(trim_start_http_whitespaces(Tail(rest))))
    ELSE IF is_empty(rest)
    THEN Ok(NextUri(rest))
    ELSE Err(ExpectedSeparatorOrTermination)

\* ParamsIter::new with the space/tab before the separator left in place.
new_untrimmed(rest) == new_without_trim(rest)

\* ParamsIter::new.
new(rest) == new_without_trim(trim_start_http_whitespaces(rest))

\* ParamsIter::into_next_uri: Some(next_uri) in the NextUri state, else None.
into_next_uri(self) ==
    IF self.tag = "NextUri"
    THEN [some |-> TRUE, val |-> self.text]
    ELSE [some |-> FALSE, val |-> <<>>]

\* next_quoted with a missing closing quote taken as the end of the value
\* (the value runs to the end of the input) instead of an error.
next_quoted_to_end(self, name, rest) ==
    LET q == find(rest, {"\""})
        after == new(From(rest, q + 1))
    IN  IF q = 0
        THEN [item |-> Ok(<<name, rest>>), self |-> NextUri(<<>>)]
        ELSE IF after.ok
        THEN [item |-> Ok(<<name, SubSeq(rest, 1, q - 1)>>), self |-> after.val]
        ELSE [item |-> Err(after.err), self |-> self]

\* next_quoted with the text after the closing quote classified by
\* new_without_trim, as the unquoted branch does, instead of new.
next_quoted_without_trim(self, name, rest) ==
    LET q == find(rest, {"\""})
        after == new_without_trim(From(rest, q + 1))
    IN  IF q = 0
        THEN [item |-> Err(UnclosedQuote), self |-> self]
        ELSE IF after.ok
        THEN [item |-> Ok(<<name, SubSeq(rest, 1, q - 1)>>), self |-> after.val]
        ELSE [item |-> Err(after.err), self |-> self]

\* next_quoted with the quoted value ended by the first '"', ',' or ';',
\* as an unquoted value is ended by the first ',' or ';'.
next_quoted_delimited(self, name, rest) ==
    LET q == find(rest, {"\"", ",", ";"})
        after == IF q # 0 /\ rest[q] = "\""
                 THEN new(From(rest, q + 1))
                 ELSE new_without_trim(From(rest, q))
    IN  IF q = 0
        THEN [item |-> Err(UnclosedQuote), self |-> self]
        ELSE IF after.ok
        THEN [item |-> Ok(<<name, SubSeq(rest, 1, q - 1)>>), self |-> after.val]
        ELSE [item |-> Err(after.err), self |-> self]

\* The value branch of ParamsIter::next that parses a quoted value: rest
\* is the text after the opening quote.  Gives the Result of the closure
\* and the state the iterator is left in (unchanged when the closure
\* fails before the assignment to *self).
next_quoted(self, name, rest) ==
    LET q == find(rest, {"\""})
        after == new(From(rest, q + 1))
    IN  IF q = 0
        THEN [item |-> Err(UnclosedQuote), self |-> self]
        ELSE IF after.ok
        THEN [item |-> Ok(<<name, SubSeq(rest, 1, q - 1)>>), self |-> after.val]
        ELSE [item |-> Err(after.err), self |-> self]

\* next_unquoted without the assignments to *self: the pair is given and
\* the scanner stays where it is.
next_unquoted_no_advance(self, name, rest) ==
    LET delimiter_index == find(rest, {",", ";"})
    IN  IF delimiter_index # 0
        THEN [item |-> Ok(<<name, SubSeq(rest, 1, delimiter_index - 1)>>), self |-> self]
        ELSE [item |-> Ok(<<name, rest>>), self |-> self]

\* The value branches of ParamsIter::next for an unquoted value: up to the
\* next ',' or ';', or all that is left.
next_unquoted(self, name, rest) ==
    LET delimiter_index == find(rest, {",", ";"})
        after == new_without_trim(From(rest, delimiter_index))
    IN  IF delimiter_index # 0
        THEN IF after.ok
             THEN [item |-> Ok(<<name, SubSeq(rest, 1, delimiter_index - 1)>>),
                   self |-> after.val]
             ELSE [item |-> Err(after.err), self |-> self]
        ELSE [item |-> Ok(<<name, rest>>), self |-> NextUri(<<>>)]

\* ParamsIter::next that answers None only when no text is left, in
\* either state, and otherwise scans the text it holds.
ParamsIter_next_unfused(self) ==
    IF self.text = <<>>
    THEN [some |-> FALSE, item |-> Err(""), self |-> self]
    ELSE LET params == self.text
             eq == find(params, {"="})
             name == trim_end_http_whitespaces(SubSeq(params, 1, eq - 1))
             rest == trim_start_http_whitespaces(From(params, eq + 1))
             r == IF eq = 0
                  THEN [item |-> Err(MissingEquals), self |-> self]
                  ELSE IF starts_with(rest, "\"")
                  THEN next_quoted(self, name, Tail(rest))
                  ELSE next_unquoted(self, name, rest)
         IN  [some |-> TRUE, item |-> r.item, self |-> r.self]

\* <ParamsIter as Iterator>::next.  some = FALSE is None; otherwise item is
\* the Result the closure f returns.
ParamsIter_next(self) ==
    IF self.tag # "Params"
    THEN [some |-> FALSE, item |-> Err(""), self |-> self]
    ELSE LET params == self.text
             eq == find(params, {"="})
             name == trim_end_http_whitespaces(SubSeq(params, 1, eq - 1))
             rest == trim_start_http_whitespaces(From(params, eq + 1))
             r == IF eq = 0
                  THEN [item |-> Err(MissingEquals), self |-> self]
                  ELSE IF starts_with(rest, "\"")
                  THEN next_quoted(self, name, Tail(rest))
                  ELSE next_unquoted(self, name, rest)
         IN  [some |-> TRUE, item |-> r.item, self |-> r.self]

\* parse_uri with the '<' optional: strip_prefix('<').unwrap_or(s).
parse_uri_optional_angle(s) ==
    LET t == trim_start_http_whitespaces(s)
        body == IF starts_with(t, "<") THEN Tail(t) ELSE t
        gt == find(body, {">"})
        it == new(From(body, gt + 1))
    IN  IF gt = 0
        THEN Err(ExpectedCloseAngle)
        ELSE IF it.ok
        THEN Ok(<<SubSeq(body, 1, gt - 1), it.val>>)
        ELSE Err(it.err)

\* parse_uri with the uri trimmed of space/tab, as http-next-link's
\* LinkValue(segment.trim()) does.
parse_uri_trimmed(s) ==
    LET t == trim_start_http_whitespaces(s)
        body == Tail(t)
        gt == find(body, {">"})
        it == new(From(body, gt + 1))
    IN  IF ~starts_with(t, "<")
        THEN Err(ExpectedOpenAngle)
        ELSE IF gt = 0
        THEN Err(ExpectedCloseAngle)
        ELSE IF it.ok
        THEN Ok(<<trim_end_http_whitespaces(
                      trim_start_http_whitespaces(SubSeq(body, 1, gt - 1))), it.val>>)
        ELSE Err(it.err)

\* parse_uri on a copy of s trimmed at both ends, as http-next-link's
\* from_str starts with s.trim().
parse_uri_trim_both(s) ==
    LET t == trim_end_http_whitespaces(trim_start_http_whitespaces(s))
        body == Tail(t)
        gt == find(body, {">"})
        it == new(From(body, gt + 1))
    IN  IF ~starts_with(t, "<")
        THEN Err(ExpectedOpenAngle)
        ELSE IF gt = 0
        THEN Err(ExpectedCloseAngle)
        ELSE IF it.ok
        THEN Ok(<<SubSeq(body, 1, gt - 1), it.val>>)
        ELSE Err(it.err)

\* parse_uri: Ok(<<uri, params iterator>>) or the Error.
parse_uri(s) ==
    LET t == trim_start_http_whitespaces(s)
        body == Tail(t)
        gt == find(body, {">"})
        it == new(From(body, gt + 1))
    IN  IF ~starts_with(t, "<")
        THEN Err(ExpectedOpenAngle)
        ELSE IF gt = 0
        THEN Err(ExpectedCloseAngle)
        ELSE IF it.ok
        THEN Ok(<<SubSeq(body, 1, gt - 1), it.val>>)
        ELSE Err(it.err)

\* ------------------------------------------------------------------------
\* Inputs: the Link header texts handed to from_str.
\* ------------------------------------------------------------------------

\* A parameter as the sender means it: its name and value texts, whether
\* the value is written between quotes, whether it is a rel parameter and
\* whether next is one of its relation types.
Param(name, value, quoted, rel, hasnext) ==
    [name |-> name, value |-> value, quoted |-> quoted, rel |-> rel, next |-> hasnext]

\* rel=next
RelNext == Param(<<"r", "e", "l">>, <<"n", "e", "x", "t">>, FALSE, TRUE, TRUE)

\* rel=prev
RelPrev == Param(<<"r", "e", "l">>, <<"p", "r", "e", "v">>, FALSE, TRUE, FALSE)

\* rel="next prev", as in lib.rs's SIMPLE_CASES_SUCCESS (rel="next preconnect").
RelNextPrev ==
    Param(<<"r", "e", "l">>, <<"n", "e", "x", "t", " ", "p", "r", "e", "v">>, TRUE, TRUE, TRUE)

\* rel="prev<TAB>next": two relation types separated by a horizontal tab.
RelPrevTabNext ==
    Param(<<"r", "e", "l">>, <<"p", "r", "e", "v", "\t", "n", "e", "x", "t">>, TRUE, TRUE, TRUE)

\* Rel="Next": the same name and relation type in another case.
RelNextCase == Param(<<"R", "e", "l">>, <<"N", "e", "x", "t">>, TRUE, TRUE, TRUE)

\* x="next": a parameter that is not rel.
XNext == Param(<<"x">>, <<"n", "e", "x", "t">>, TRUE, FALSE, FALSE)

\* x="v,;v": a quoted value holding both delimiters.
XDelims == Param(<<"x">>, <<"v", ",", ";", "v">>, TRUE, FALSE, FALSE)

\* The parameter lists a link-value is given.
ParamLists ==
    { <<>>,
      <<RelNext>>, <<RelPrev>>, <<RelNextPrev>>, <<RelPrevTabNext>>, <<RelNextCase>>,
      <<XNext>>, <<XDelims, RelNext>>,
      <<RelNext, RelPrev>>, <<RelPrev, RelNext>>,
      <<RelNextPrev, RelPrev, XNext>>, <<XNext, RelPrev, RelNextPrev>>,
      <<RelPrevTabNext, RelPrev>> }

\* The URI text of the i-th link-value: every position has its own text;
\* the second is the text lib.rs's SIMPLE_CASES_FAILURE uses (";,"), the
\* third has space around it.
UriOf(i) ==
    IF i = 2 THEN <<";", ",">>
    ELSE IF i = 3 THEN <<" ", "h", ":", "c", " ">>
    ELSE <<"h", ":">> \o [k \in 1..i |-> "a"]

\* The optional whitespace (OWS) a sender writes around separators.
OwsChoices == { <<>>, <<" ">>, <<"\t">> }

\* All headers of n link-values, as sequences of parameter lists.
RECURSIVE LinkValueLists(_)
LinkValueLists(n) ==
    IF n = 0 THEN { <<>> }
    ELSE LET shorter == LinkValueLists(n - 1)
         IN  shorter \cup
             { Append(l, [uri |-> UriOf(n), params |-> ps]) :
                 l \in { x \in shorter : Len(x) = n - 1 }, ps \in ParamLists }

RECURSIVE Concat(_)
Concat(ss) == IF ss = <<>> THEN <<>> ELSE Head(ss) \o Concat(Tail(ss))

\* param = token OWS "=" OWS ( quoted-value / token-value ), after OWS ";" OWS.
RenderParam(p, ows) ==
    ows \o <<";">> \o ows \o p.name \o ows \o <<"=">> \o ows
        \o (IF p.quoted THEN <<"\"">> \o p.value \o <<"\"">> ELSE p.value)

\* link-value = "<" URI-text ">" *( OWS ";" OWS param ).
RenderLinkValue(lv, ows) ==
    <<"<">> \o lv.uri \o <<">">>
        \o Concat([i \in 1..Len(lv.params) |-> RenderParam(lv.params[i], ows)])

\* header = link-value *( OWS "," OWS link-value ).
RenderHeader(lvs, ows) ==
    Concat([i \in 1..Len(lvs) |->
              (IF i = 1 THEN <<>> ELSE ows \o <<",">> \o ows)
                  \o RenderLinkValue(lvs[i], ows)])

\* Pieces of arbitrary text: every character the grammar gives a meaning,
\* a name and a whole URI token.
TailPieces ==
    { <<"<">>, <<">">>, <<";">>, <<",">>, <<"=">>, <<"\"">>, <<" ">>, <<"\t">>,
      <<"x">>, <<"<", "h", ":", "b", ">">> }

\* All concatenations of at most n pieces.
RECURSIVE Tails(_)
Tails(n) ==
    IF n = 0 THEN { <<>> }
    ELSE LET shorter == Tails(n - 1)
         IN  shorter \cup { t \o p : t \in shorter, p \in TailPieces }

\* The header starts arbitrary text is appended to.
RawStarts ==
    { <<>>,
      <<[uri |-> UriOf(1), params |-> <<RelNext>>]>>,
      <<[uri |-> UriOf(1), params |-> <<XNext>>]>>,
      <<[uri |-> UriOf(1), params |-> <<RelPrev>>]>> }

\* ------------------------------------------------------------------------
\* lib.rs: NextLinks::from_str, one action per step of its loop.
\* ------------------------------------------------------------------------

VARIABLES
    link_values, \* the link-values the sender serialised
    ows,         \* the optional whitespace the sender wrote
    tail,        \* arbitrary text that follows them
    header,      \* the argument of from_str
    s,           \* from_str's s: the remaining slice
    uri,         \* the uri parse_uri returned for the current link-value
    params,      \* the ParamsIter of the current link-value
    rels,        \* Option: the value of the first rel parameter
    next_links,  \* the Vec of uris pushed so far
    pc,          \* the statement from_str is at
    result       \* what from_str returned, once pc = "done"

vars == <<link_values, ows, tail, header, s, uri, params, rels, next_links, pc, result>>

input == <<link_values, ows, tail, header>>

None == [some |-> FALSE, val |-> <<>>]

Some(v) == [some |-> TRUE, val |-> v]

\* No ParamsIter exists before the first parse_uri.
NoParams == [tag |-> "None", text |-> <<>>]

\* from_str's entry: s is the header, next_links = Vec::new().
Start ==
    /\ s = header
    /\ uri = <<>>
    /\ params = NoParams
    /\ rels = None
    /\ next_links = <<>>
    /\ pc = "while"
    /\ result = Err("")

\* Headers serialised from link-values by the grammar.
Init ==
    /\ link_values \in LinkValueLists(MaxLinkValues)
    /\ ows \in OwsChoices
    /\ tail = <<>>
    /\ header = RenderHeader(link_values, ows)
    /\ Start

\* Headers that start as a serialised link-value and go on arbitrarily.
InitRaw ==
    /\ link_values \in RawStarts
    /\ ows = <<>>
    /\ tail \in Tails(MaxTail)
    /\ header = RenderHeader(link_values, ows) \o tail
    /\ Start

\* return Err(e), from the ? operators and from `return Err(err)`.
Fail(e) ==
    /\ pc' = "done"
    /\ result' = Err(e)
    /\ UNCHANGED <<s, uri, params, rels, next_links>>

\* `while !s.is_empty()` entered: let (uri, mut params) = parse_uri(s)?.
ParseUri ==
    /\ pc = "while"
    /\ ~is_empty(s)
    /\ LET r == parse_uri(s)
       IN  IF r.ok
           THEN /\ uri' = r.val[1]
                /\ params' = r.val[2]
                /\ pc' = "try_find_map"
                /\ UNCHANGED <<s, rels, next_links, result>>
           ELSE Fail(r.err)
    /\ UNCHANGED input

\* The loop is left: Ok(Self(next_links.into_iter())).
Return ==
    /\ pc = "while"
    /\ is_empty(s)
    /\ pc' = "done"
    /\ result' = Ok(next_links)
    /\ UNCHANGED <<s, uri, params, rels, next_links>>
    /\ UNCHANGED input

\* The closure given to try_find_map:
\* |(name, value)| "rel".eq_ignore_ascii_case(name).then_some(value).
rel_closure(name, value) ==
    IF eq_ignore_ascii_case(<<"r", "e", "l">>, name) THEN Some(value) ELSE None

\* One turn of the loop of IterExt::try_find_map on params, and, when it
\* breaks, `.transpose()?`.
TryFindMap ==
    /\ pc = "try_find_map"
    /\ LET n == ParamsIter_next(params)
           found == rel_closure(n.item.val[1], n.item.val[2])
       IN  IF ~n.some
           THEN /\ rels' = None
                /\ pc' = "find_map"
                /\ UNCHANGED <<s, uri, params, next_links, result>>
           ELSE IF ~n.item.ok
           THEN Fail(n.item.err)
           ELSE IF found.some
           THEN /\ rels' = found
                /\ params' = n.self
                /\ pc' = "find_map"
                /\ UNCHANGED <<s, uri, next_links, result>>
           ELSE /\ params' = n.self
                /\ UNCHANGED <<s, uri, rels, next_links, pc, result>>
    /\ UNCHANGED input

\* from_str without the drain: the parameters after the first rel are
\* left unread.
FindMapErr_no_drain ==
    /\ pc = "find_map"
    /\ pc' = "push"
    /\ UNCHANGED <<s, uri, params, rels, next_links, result>>
    /\ UNCHANGED input

\* One turn of params.find_map(Result::err): the rest of the parameters
\* is consumed and the first error is returned.
FindMapErr ==
    /\ pc = "find_map"
    /\ LET n == ParamsIter_next(params)
       IN  IF ~n.some
           THEN /\ pc' = "push"
                /\ UNCHANGED <<s, uri, params, rels, next_links, result>>
           ELSE IF ~n.item.ok
           THEN Fail(n.item.err)
           ELSE /\ params' = n.self
                /\ UNCHANGED <<s, uri, rels, next_links, pc, result>>
    /\ UNCHANGED input

\* rels.map(|rels| rels.split(' ').any(|rel| "next".eq_ignore_ascii_case(rel)))
\*     .unwrap_or(false).
is_next(r) ==
    /\ r.some
    /\ \E i \in 1..Len(split(r.val, " ")) :
          eq_ignore_ascii_case(<<"n", "e", "x", "t">>, split(r.val, " ")[i])

\* if is_next { next_links.push(uri) }; s = params.into_next_uri().unwrap().
\* unwrap panics on None.
Push ==
    /\ pc = "push"
    /\ next_links' = IF is_next(rels) THEN Append(next_links, uri) ELSE next_links
    /\ IF into_next_uri(params).some
       THEN /\ s' = into_next_uri(params).val
            /\ pc' = "while"
       ELSE /\ s' = s
            /\ pc' = "panic"
    /\ UNCHANGED <<uri, params, rels, result>>
    /\ UNCHANGED input

Next == ParseUri \/ Return \/ TryFindMap \/ FindMapErr \/ Push

Spec == Init /\ [][Next]_vars

SpecRaw == InitRaw /\ [][Next]_vars

\* ------------------------------------------------------------------------
\* Text predicates the properties are stated with.  They read a text by
\* its character positions and use none of the parser's operators.
\* ------------------------------------------------------------------------

Ws == {" ", "\t"}

\* The position of the first character of t that is not space or tab,
\* Len(t) + 1 when there is none.
FirstNonWs(t) ==
    CHOOSE i \in 1..(Len(t) + 1) :
        /\ \A j \in 1..(i - 1) : t[j] \in Ws
        /\ i <= Len(t) => t[i] \notin Ws

\* The position of the first c in t after position i, Len(t) + 1 when
\* there is none.
FirstAfter(t, i, c) ==
    CHOOSE k \in (i + 1)..(Len(t) + 1) :
        /\ \A j \in (i + 1)..(k - 1) : t[j] # c
        /\ k <= Len(t) => t[k] = c

\* t, once leading space/tab is trimmed, begins with c.
BeginsWith(t, c) == FirstNonWs(t) <= Len(t) /\ t[FirstNonWs(t)] = c

\* The text of t after position i.
After(t, i) == [k \in 1..(Len(t) - i) |-> t[i + k]]

\* The text of t strictly between positions i and k.
Between(t, i, k) == [j \in 1..(k - i - 1) |-> t[i + j]]

\* The text that follows is neither empty, nor ';' or ',' after optional
\* space/tab.
BadSeparator(t) == FirstNonWs(t) <= Len(t) /\ t[FirstNonWs(t)] \notin {";", ","}

\* The scanner is about to be asked for a pair.
Scanning == pc \in {"try_find_map", "find_map"} /\ params.tag = "Params"

\* from_str fails in this step with the message e, returning no uri.
FailsWith(e) == pc' = "done" /\ result' = Err(e)

\* The position of the first '=' of t (Len(t) + 1 when there is none).
EqualsAt(t) == FirstAfter(t, 0, "=")

\* The position where the value of the parameter t = "name=value..."
\* starts: the first character after '=' that is not space or tab.
ValueAt(t) == EqualsAt(t) + FirstNonWs(After(t, EqualsAt(t)))

\* The parameter's value begins with a quote.
QuotedValue(t) ==
    /\ EqualsAt(t) <= Len(t)
    /\ ValueAt(t) <= Len(t)
    /\ t[ValueAt(t)] = "\""

\* The position of the quote that closes the quoted value.
ClosingQuoteAt(t) == FirstAfter(t, ValueAt(t), "\"")

\* The number of quotes among the first n characters of t.
QuotesBefore(t, n) == Cardinality({j \in 1..(n - 1) : t[j] = "\""})

\* The end of the parameter segment t starts with: the position of the
\* first ';' or ',' outside quotes, Len(t) + 1 when there is none.
SegmentEnd(t) ==
    CHOOSE k \in 1..(Len(t) + 1) :
        /\ \A j \in 1..(k - 1) : t[j] \in {";", ","} => QuotesBefore(t, j) % 2 = 1
        /\ k <= Len(t) => (t[k] \in {";", ","} /\ QuotesBefore(t, k) % 2 = 0)

\* The parameter segment t starts with contains no '='.
SegmentLacksEquals(t) == \A j \in 1..(SegmentEnd(t) - 1) : t[j] # "="

\* ------------------------------------------------------------------------
\* Properties.
\* ------------------------------------------------------------------------

\* C6 (UnclosedQuote): whenever the scanner is asked for a pair and the
\* parameter's value begins with '"' (after the space/tab that follows '=')
\* and no further '"' occurs in the rest of the header, from_str fails
\* with the UnclosedQuote error, whatever text follows the opening quote.
C6_UnclosedQuote ==
    [][ ( /\ Scanning
          /\ QuotedValue(params.text)
          /\ ClosingQuoteAt(params.text) > Len(params.text) )
        => FailsWith(UnclosedQuote) ]_vars

\* C6 witness: from_str has failed with UnclosedQuote on a parameter whose
\* opening quote is followed by a ',' and no closing quote.
C6_Witness ==
    /\ pc = "done"
    /\ result = Err(UnclosedQuote)
    /\ params.tag = "Params"
    /\ QuotedValue(params.text)
    /\ \E i \in (ValueAt(params.text) + 1)..Len(params.text) : params.text[i] = ","

\* C7 (ExpectedOpenAngle): whenever the loop is entered with a non-empty
\* remaining slice (the header itself, or what follows a ',') whose first
\* character after leading space/tab is not '<' (a slice of only
\* space/tab included), from_str fails with the ExpectedOpenAngle error.
C7_ExpectedOpenAngle ==
    [][ (pc = "while" /\ Len(s) > 0 /\ ~BeginsWith(s, "<"))
        => FailsWith(ExpectedOpenAngle) ]_vars

\* C7 witness: from_str has failed with ExpectedOpenAngle on a link-value
\* that follows a ',' separator, after an earlier link-value was pushed.
C7_Witness ==
    /\ pc = "done"
    /\ result = Err(ExpectedOpenAngle)
    /\ Len(s) > 0
    /\ s # header
    /\ next_links # <<>>

\* C8 (URI token): when the remaining slice begins with '<', either no '>'
\* follows it and from_str fails with the ExpectedCloseAngle error, or
\* the uri read is exactly the text between that '<' and the first '>'
\* after it, untrimmed.
C8_UriToken ==
    [][ (pc = "while" /\ BeginsWith(s, "<"))
        => LET lt == FirstNonWs(s)
               gt == FirstAfter(s, lt, ">")
           IN  IF gt > Len(s)
               THEN FailsWith(ExpectedCloseAngle)
               ELSE /\ ~FailsWith(ExpectedCloseAngle)
                    /\ pc' = "try_find_map" => uri' = Between(s, lt, gt) ]_vars

\* C8 witness: a uri that starts with a space has been read, as written.
C8_Witness ==
    /\ pc = "try_find_map"
    /\ Len(uri) > 1
    /\ uri[1] = " "

\* C9 (ExpectedSeparatorOrTermination): right after the '>' of a uri and
\* right after the closing '"' of a quoted parameter value, from_str
\* fails with the ExpectedSeparatorOrTermination error exactly when the
\* text that follows, after leading space/tab, is neither empty nor
\* starts with ';' or ','.
C9_Separator ==
    [][ /\ ( /\ pc = "while"
             /\ BeginsWith(s, "<")
             /\ FirstAfter(s, FirstNonWs(s), ">") <= Len(s) )
           => ( FailsWith(ExpectedSeparatorOrTermination)
                <=> BadSeparator(After(s, FirstAfter(s, FirstNonWs(s), ">"))) )
        /\ ( /\ Scanning
             /\ QuotedValue(params.text)
             /\ ClosingQuoteAt(params.text) <= Len(params.text) )
           => ( FailsWith(ExpectedSeparatorOrTermination)
                <=> BadSeparator(After(params.text, ClosingQuoteAt(params.text))) )
      ]_vars

\* C9 witness: from_str has failed with ExpectedSeparatorOrTermination on
\* the text that follows the closing quote of a parameter value.
C9_Witness ==
    /\ pc = "done"
    /\ result = Err(ExpectedSeparatorOrTermination)
    /\ params.tag = "Params"
    /\ QuotedValue(params.text)
    /\ BadSeparator(After(params.text, ClosingQuoteAt(params.text)))

\* ------------------------------------------------------------------------
\* What the sender of a serialised header means, read off link_values.
\* ------------------------------------------------------------------------

\* The link-value has a rel parameter, and the first one lists next.
FirstRelListsNext(lv) ==
    \E i \in 1..Len(lv.params) :
        /\ lv.params[i].rel
        /\ lv.params[i].next
        /\ \A j \in 1..(i - 1) : ~lv.params[j].rel

\* The number of rel parameters of the link-value.
RelCount(lv) == Cardinality({i \in 1..Len(lv.params) : lv.params[i].rel})

\* The first rel parameter of the link-value separates next from its
\* neighbour by a horizontal tab.
FirstRelHasTab(lv) ==
    \E i \in 1..Len(lv.params) :
        /\ lv.params[i].rel
        /\ lv.params[i].next
        /\ \E k \in 1..Len(lv.params[i].value) : lv.params[i].value[k] = "\t"
        /\ \A j \in 1..(i - 1) : ~lv.params[j].rel

\* The uris of the link-values whose first rel lists next, in header order.
NextUris(lvs) ==
    LET sel == SelectSeq(lvs, FirstRelListsNext)
    IN  [i \in 1..Len(sel) |-> sel[i].uri]

\* from_str returned the uri u.
Returned(u) == result.ok /\ \E k \in 1..Len(result.val) : result.val[k] = u

\* url::Url::parse, as far as the inputs need it: a text with no scheme
\* (no ':' after leading letters) is rejected as a relative URL without a
\* base, which is what lib.rs's tests rely on for ";,".
Url_parse(u) ==
    LET t == trim_end_http_whitespaces(trim_start_http_whitespaces(u))
    IN  IF \E i \in 2..Len(t) :
              /\ t[i] = ":"
              /\ \A j \in 1..(i - 1) : t[j] \in {"h", "a", "b", "c"}
        THEN Ok(u)
        ELSE Err("relative URL without a base")

\* C1: for every serialised header that parses without failure, from_str
\* returns exactly the uris of the link-values whose first rel parameter
\* lists the token next, one per such link-value, in header order (the
\* empty sequence when there is none).
C1_AllNextLinksInOrder ==
    (pc = "done" /\ result.ok) => result.val = NextUris(link_values)

\* C2: for a link-value with two or more rel parameters, its uri is
\* returned exactly when the first rel parameter lists next, whatever
\* the later ones list.
C2_FirstRelWins ==
    (pc = "done" /\ result.ok)
        => \A i \in 1..Len(link_values) :
              RelCount(link_values[i]) >= 2
                  => (Returned(link_values[i].uri) <=> FirstRelListsNext(link_values[i]))

\* C5: a link-value whose first rel value has next separated from its
\* neighbouring token by a horizontal tab has its uri returned.
C5_TabSeparatesRelTokens ==
    (pc = "done" /\ result.ok)
        => \A i \in 1..Len(link_values) :
              FirstRelHasTab(link_values[i]) => Returned(link_values[i].uri)

\* C10: when the uri text of some link-value is rejected by Url::parse,
\* from_str fails with that parse error (that of the first such
\* link-value), whatever the link-value's rel is.
C10_UrlParseError ==
    pc = "done"
        => \A i \in 1..Len(link_values) :
              ( /\ ~Url_parse(link_values[i].uri).ok
                /\ \A j \in 1..(i - 1) : Url_parse(link_values[j].uri).ok )
                  => result = Err(Url_parse(link_values[i].uri).err)

\* C4 (MissingEquals): whenever the scanner is asked for a pair and the
\* parameter segment it stands at (the text up to the next ';' or ','
\* outside quotes, or to the end of input) contains no '=', from_str
\* fails with the MissingEquals error, whatever follows the segment.
C4_MissingEquals ==
    [][ (Scanning /\ SegmentLacksEquals(params.text))
        => FailsWith(MissingEquals) ]_vars

\* The link-value or the parameter the parse stands at is malformed: the
\* link-value does not begin with '<', has no '>', or is followed by
\* something else than ';', ',' or the end; the parameter segment has no
\* '=', or its quoted value is not closed or is followed by something
\* else than ';', ',' or the end.
MalformedHere ==
    \/ /\ pc = "while"
       /\ Len(s) > 0
       /\ \/ ~BeginsWith(s, "<")
          \/ FirstAfter(s, FirstNonWs(s), ">") > Len(s)
          \/ BadSeparator(After(s, FirstAfter(s, FirstNonWs(s), ">")))
    \/ /\ Scanning
       /\ \/ SegmentLacksEquals(params.text)
          \/ /\ QuotedValue(params.text)
             /\ \/ ClosingQuoteAt(params.text) > Len(params.text)
                \/ BadSeparator(After(params.text, ClosingQuoteAt(params.text)))

\* C3 (fail-fast and atomic): whenever the parse reaches a malformed
\* link-value or parameter, wherever it stands in the header (after
\* link-values that matched rel=next, after the first rel parameter of
\* its link-value), from_str returns an error and no uri.
C3_FailFastAtomic ==
    [][ MalformedHere => (pc' = "done" /\ ~result'.ok /\ result'.val = <<>>) ]_vars

\* ------------------------------------------------------------------------
\* Headers of one link-value whose last parameter varies in the case and
\* the spelling of its name and of one of its relation types.
\* ------------------------------------------------------------------------

\* Largest number of relation types the varied rel value lists.
MaxTokens == 2

\* "rel" and "next", the literals lib.rs compares with.
RelWord == <<"r", "e", "l">>

NextWord == <<"n", "e", "x", "t">>

\* The upper-case ASCII letter of a lower-case one.
Upper(c) ==
    CASE c = "r" -> "R"
      [] c = "e" -> "E"
      [] c = "l" -> "L"
      [] c = "n" -> "N"
      [] c = "x" -> "X"
      [] c = "t" -> "T"
      [] OTHER -> c

\* Every spelling of word with each letter in either case.
RECURSIVE CaseVariants(_)
CaseVariants(word) ==
    IF word = <<>> THEN { <<>> }
    ELSE { <<c>> \o t : c \in {Head(word), Upper(Head(word))},
                        t \in CaseVariants(Tail(word)) }

\* Texts that are close to word without being a case variant of it: a
\* letter short, a letter more at either end, a non-ASCII look-alike of
\* its second letter ("U+0435" stands for the one character CYRILLIC SMALL
\* LETTER IE) and word between apostrophes.
NearMisses(word) ==
    { SubSeq(word, 1, Len(word) - 1),
      word \o <<"x">>,
      <<"x">> \o word,
      <<word[1], "U+0435">> \o SubSeq(word, 3, Len(word)),
      <<"'">> \o word \o <<"'">> }

\* The parameter names written, each with whether it is rel.
NameChoices ==
    { [text |-> t, match |-> TRUE] : t \in CaseVariants(RelWord) }
        \cup { [text |-> t, match |-> FALSE] : t \in NearMisses(RelWord) }

\* The relation types written, each with whether it is next.
TokenChoices ==
    { [text |-> t, match |-> TRUE] : t \in CaseVariants(NextWord) }
        \cup { [text |-> t, match |-> FALSE] : t \in NearMisses(NextWord) }

\* k times the relation type prev, each followed (after = FALSE) or
\* preceded (after = TRUE) by one space.
RECURSIVE Fillers(_, _)
Fillers(k, after) ==
    IF k = 0 THEN <<>>
    ELSE (IF after THEN <<" ", "p", "r", "e", "v">> ELSE <<"p", "r", "e", "v", " ">>)
             \o Fillers(k - 1, after)

\* The number of relation types written after the token when b are
\* written before it and a more are asked for: at least one other type in
\* all, and no more than MaxTokens types with the token.
Others(b, a) ==
    IF b + a = 0 THEN 1
    ELSE IF b + a + 1 > MaxTokens THEN MaxTokens - 1 - b
    ELSE a

\* The varied parameters: the token alone, unquoted or quoted, or among
\* other relation types in a quoted value of at most MaxTokens types.
CaseParams ==
    { Param(n.text, tk.text, q, n.match, n.match /\ tk.match) :
        n \in NameChoices, tk \in TokenChoices, q \in BOOLEAN }
        \cup { Param(n.text, Fillers(b, FALSE) \o tk.text \o Fillers(Others(b, a), TRUE),
                     TRUE, n.match, n.match /\ tk.match) :
                 n \in NameChoices, tk \in TokenChoices, b \in 0..(MaxTokens - 1),
                 a \in 0..(MaxTokens - 1) }

\* The headers: one link-value holding a varied parameter, alone or after
\* a parameter that is not rel and whose value is next.
CaseHeaders ==
    { <<[uri |-> UriOf(1), params |-> pre \o <<p>>]>> :
        pre \in { <<>>, <<XNext>> }, p \in CaseParams }

InitCase ==
    /\ link_values \in CaseHeaders
    /\ ows \in OwsChoices
    /\ tail = <<>>
    /\ header = RenderHeader(link_values, ows)
    /\ Start

SpecCase == InitCase /\ [][Next]_vars

\* The varied parameter of the header.
Varied == link_values[1].params[Len(link_values[1].params)]

\* Some run of characters of v between spaces (or the ends of v) is a
\* case variant of next.
ListsNextVariant(v) ==
    \E i \in 1..Len(v) : \E j \in i..Len(v) :
        /\ i = 1 \/ v[i - 1] = " "
        /\ j = Len(v) \/ v[j + 1] = " "
        /\ [k \in 1..(j - i + 1) |-> v[i + k - 1]] \in CaseVariants(NextWord)

\* C11: the link-value's uri is returned exactly when the parameter's name
\* is rel in some mix of upper and lower case and one of the relation
\* types of its value is next in some mix of upper and lower case; a name
\* or a relation type that differs in any other way (a letter short or
\* more, a non-ASCII look-alike, apostrophes around it) is not matched,
\* and no spelling makes the parse fail.
C11_AsciiCaseOnly ==
    pc = "done"
        => /\ result.ok
           /\ Returned(link_values[1].uri)
                <=> ( /\ Varied.name \in CaseVariants(RelWord)
                      /\ ListsNextVariant(Varied.value) )

\* C11 witness: a header whose name and relation type are both written in
\* mixed case, after other relation types, has had its uri returned.
C11_Witness ==
    /\ pc = "done"
    /\ Returned(link_values[1].uri)
    /\ Varied.name = <<"r", "E", "l">>
    /\ Varied.value = <<"p", "r", "e", "v", " ", "n", "E", "x", "T">>

\* ------------------------------------------------------------------------
\* Headers derived from the grammar with parameters of every shape it
\* allows.
\* ------------------------------------------------------------------------

\* Largest number of parameters of the first link-value.
MaxParams == 2

\* Parameters of the shapes the grammar allows: an empty, a plain and an
\* '='-holding unquoted value, quoted values that are empty or hold the
\* delimiters, '=', '>', a whole "<h:b>" or space and tab, a name that is
\* not rel (with a '*'), and rel itself.
GrammarParams ==
    { Param(<<"x">>, <<>>, FALSE, FALSE, FALSE),
      Param(<<"x">>, <<"v">>, FALSE, FALSE, FALSE),
      Param(<<"x">>, <<"a", "=", "b">>, FALSE, FALSE, FALSE),
      Param(<<"x">>, <<>>, TRUE, FALSE, FALSE),
      Param(<<"x">>, <<",", ";">>, TRUE, FALSE, FALSE),
      Param(<<"x">>, <<"=">>, TRUE, FALSE, FALSE),
      Param(<<"x">>, <<">">>, TRUE, FALSE, FALSE),
      Param(<<"x">>, <<"<", "h", ":", "b", ">">>, TRUE, FALSE, FALSE),
      Param(<<"x">>, <<" ", "v", "\t">>, TRUE, FALSE, FALSE),
      Param(<<"t", "*">>, <<"v">>, FALSE, FALSE, FALSE),
      RelNext,
      RelNextPrev }

\* The parameter lists of at most n of these parameters.
RECURSIVE GrammarParamLists(_)
GrammarParamLists(n) ==
    IF n = 0 THEN { <<>> }
    ELSE LET shorter == GrammarParamLists(n - 1)
         IN  shorter \cup { Append(l, p) : l \in shorter, p \in GrammarParams }

\* The headers: a link-value with such a list, alone or followed by a
\* second link-value.
GrammarHeaders ==
    { <<[uri |-> UriOf(1), params |-> ps]>> \o more :
        ps \in GrammarParamLists(MaxParams),
        more \in { <<>>,
                   <<[uri |-> UriOf(2), params |-> <<>>]>>,
                   <<[uri |-> UriOf(3), params |-> <<XDelims, RelNext>>]>> } }

InitGrammar ==
    /\ link_values \in GrammarHeaders
    /\ ows \in OwsChoices
    /\ tail = <<>>
    /\ header = RenderHeader(link_values, ows)
    /\ Start

SpecGrammar == InitGrammar /\ [][Next]_vars

\* C12: a header derived from the grammar (link-values separated by ','
\* with optional space/tab on either side, each "<uri>" followed by
\* parameters "name = value" introduced by ';', the value quoted or not,
\* names other than rel included) is parsed to the end: from_str returns
\* Ok, with none of the five syntax errors, and does not panic.
C12_GrammarAccepted ==
    /\ pc # "panic"
    /\ pc = "done" => result.ok

\* C12 witness: a header of two link-values written with tabs around the
\* separators, whose first link-value has a parameter that is not rel with
\* a quoted value holding ',' and ';', has been parsed to the end.
C12_Witness ==
    /\ pc = "done"
    /\ result.ok
    /\ ows = <<"\t">>
    /\ Len(link_values) = 2
    /\ \E i \in 1..Len(link_values[1].params) :
          /\ ~link_values[1].params[i].rel
          /\ link_values[1].params[i].quoted
          /\ link_values[1].params[i].value = <<",", ";">>

\* ------------------------------------------------------------------------
\* Values and the delimiters in and after them.
\* ------------------------------------------------------------------------

\* t without its leading space/tab.
SkipWs(t) == After(t, FirstNonWs(t) - 1)

\* The position of the first ',' or ';' of t at or after position i,
\* Len(t) + 1 when there is none.
DelimiterFrom(t, i) ==
    CHOOSE k \in i..(Len(t) + 1) :
        /\ \A j \in i..(k - 1) : t[j] \notin {",", ";"}
        /\ k <= Len(t) => t[k] \in {",", ";"}

\* The scanner a separator at position d of t leaves: more parameters
\* after ';', the next link-value after ',', nothing at the end of t.
ScannerAfter(t, d) ==
    IF d > Len(t) THEN NextUri(<<>>)
    ELSE IF t[d] = ";" THEN Params(SkipWs(After(t, d)))
    ELSE NextUri(SkipWs(After(t, d)))

\* The pair the scanner gives when asked in its present state.
Pair == ParamsIter_next(params).item

\* C13: when the scanner is asked for a pair and the value after the '='
\* begins with '"' and is closed and followed by a separator or the end,
\* the value is exactly the text between that '"' and the next '"',
\* untrimmed, whatever ',', ';', '<', '>' or '=' it holds, and the scanner
\* goes on from the separator after the closing quote; when the value
\* does not begin with '"', it is the text up to the first ',' or ';', and
\* the scanner goes on with the parameters of the same link-value after
\* ';' and is at the next link-value after ','.
C13_QuotedDelimiters ==
    [][ (Scanning /\ EqualsAt(params.text) <= Len(params.text))
        => LET t == params.text
               v == ValueAt(t)
               cq == ClosingQuoteAt(t)
               d == DelimiterFrom(t, v)
           IN  IF QuotedValue(t)
               THEN (cq <= Len(t) /\ ~BadSeparator(After(t, cq)))
                      => /\ Pair.ok
                         /\ Pair.val[2] = Between(t, v, cq)
                         /\ pc' # "done"
                         /\ params' = ScannerAfter(t, cq + FirstNonWs(After(t, cq)))
               ELSE /\ Pair.ok
                    /\ Pair.val[2] = Between(t, v - 1, d)
                    /\ pc' # "done"
                    /\ params' = ScannerAfter(t, d) ]_vars

\* C13 witness: the first parameter of the first link-value, whose quoted
\* value holds ',' and ';', has been read as one parameter: the scanner is
\* at the second parameter of the same link-value.
C13_Witness ==
    /\ pc = "try_find_map"
    /\ params.tag = "Params"
    /\ Len(link_values[1].params) = 2
    /\ link_values[1].params[1].quoted
    /\ link_values[1].params[1].value = <<",", ";">>
    /\ header = <<"<">> \o link_values[1].uri \o <<">">>
                    \o RenderParam(link_values[1].params[1], ows)
                    \o ows \o <<";">> \o ows \o params.text

\* ------------------------------------------------------------------------
\* The cursor.
\* ------------------------------------------------------------------------

\* a is the text of the last Len(a) characters of b.
IsSuffix(a, b) ==
    /\ Len(a) <= Len(b)
    /\ \A k \in 1..Len(a) : a[k] = b[Len(b) - Len(a) + k]

\* The remaining slices are views of the end of the header: s is a suffix
\* of the header and the text the scanner holds, in either state, is a
\* suffix of s.
CursorInHeader ==
    /\ IsSuffix(s, header)
    /\ params # NoParams => IsSuffix(params.text, s)

\* C14 (cursor): at every point of a parse s is a suffix of the header
\* and the scanner's text a suffix of s, and every step moves forward
\* only: reading a uri gives the scanner a proper suffix of s, producing a
\* pair replaces the scanner's text by a proper suffix of it, and moving
\* to the next link-value replaces s by the scanner's leftover, a proper
\* suffix of s.
C14_CursorForward ==
    [][ /\ CursorInHeader
        /\ CursorInHeader'
        /\ IsSuffix(s', s)
        /\ (pc = "while" /\ pc' = "try_find_map")
              => (IsSuffix(params'.text, s) /\ Len(params'.text) < Len(s))
        /\ (Scanning /\ pc' # "done")
              => (IsSuffix(params'.text, params.text)
                  /\ Len(params'.text) < Len(params.text))
        /\ (pc = "push" /\ pc' = "while")
              => (s' = params.text /\ Len(s') < Len(s)) ]_vars

\* C14 witness: the parse is past a first link-value and has scanned the
\* parameters of a second one, after which more text is left.
C14_Witness ==
    /\ pc = "push"
    /\ s # header
    /\ params.tag = "NextUri"
    /\ Len(params.text) > 0
    /\ Len(params.text) < Len(s)
    /\ IsSuffix(params.text, header)

\* ------------------------------------------------------------------------
\* The terminal state of the scanner.
\* ------------------------------------------------------------------------

\* The scanner is in its terminal state.
Terminal == params.tag = "NextUri"

\* C15 as stated: whenever the scanner is in its terminal state, the
\* leftover text it holds is either empty or begins with '<'.
C15_LeftoverAtLinkValue ==
    Terminal => (params.text = <<>> \/ params.text[1] = "<")

\* C15 as amended: whenever the scanner is in its terminal state, the
\* leftover text it holds has no leading space/tab and is either empty or
\* begins with '<', or else begins with another character, and then
\* from_str cannot return Ok: once it has returned, it has failed with the
\* ExpectedOpenAngle error.
C15_LeftoverOrOpenAngleError ==
    Terminal
        => \/ params.text = <<>>
           \/ params.text[1] = "<"
           \/ /\ params.text[1] \notin Ws
              /\ pc = "done" => result = Err(ExpectedOpenAngle)

\* C15 witness: the scanner is in its terminal state with a leftover that
\* is not empty and does not begin with '<', and from_str has failed.
C15_Witness ==
    /\ Terminal
    /\ params.text # <<>>
    /\ params.text[1] # "<"
    /\ pc = "done"
    /\ result = Err(ExpectedOpenAngle)

\* The position of the separator that follows the value of the parameter
\* t begins with: the first character that is not space/tab after the
\* closing quote of a quoted value, or the first ',' or ';' from the start
\* of an unquoted one; Len(t) + 1 at the end of t.
SeparatorAt(t) ==
    IF QuotedValue(t)
    THEN ClosingQuoteAt(t) + FirstNonWs(After(t, ClosingQuoteAt(t)))
    ELSE DelimiterFrom(t, ValueAt(t))

\* The position of the separator that follows the uri of the link-value
\* t begins with.
SeparatorAfterUri(t) ==
    FirstAfter(t, FirstNonWs(t), ">")
        + FirstNonWs(After(t, FirstAfter(t, FirstNonWs(t), ">")))

\* The scanner is terminal after the step and exposes what follows the
\* separator at position d of t: the text after the ',' without its
\* leading space/tab, nothing at the end of t.
TerminalPast(t, d) ==
    (d > Len(t) \/ t[d] = ",")
        => /\ Terminal'
           /\ params'.text = IF d > Len(t) THEN <<>> ELSE SkipWs(After(t, d))

\* C16 (terminal state): once the separator that follows a parameter
\* value, or the uri of a link-value with no parameters, is ',' or the
\* end of input, the scanner is in its terminal state and holds the text
\* right after that ',' without leading space/tab (nothing at the end of
\* input); every later call for a pair answers "no more parameters" and
\* leaves the scanner as it is, for as long as this link-value is
\* processed; and what the driver resumes from is that text.
C16_TerminalAbsorbing ==
    [][ /\ (Scanning /\ pc' # "done")
              => /\ EqualsAt(params.text) <= Len(params.text)
                 /\ TerminalPast(params.text, SeparatorAt(params.text))
        /\ (pc = "while" /\ pc' = "try_find_map")
              => TerminalPast(s, SeparatorAfterUri(s))
        /\ (Terminal /\ pc \in {"try_find_map", "find_map"})
              => /\ ~ParamsIter_next(params).some
                 /\ params' = params
                 /\ pc' \in {"find_map", "push"}
        /\ (Terminal /\ pc = "push")
              => /\ params' = params
                 /\ s' = params.text
                 /\ pc' = "while" ]_vars

\* C16 witness: the rel parameter was followed by ',', the later call for
\* a pair answered "no more parameters", and the scanner still holds the
\* text of the next link-value.
C16_Witness ==
    /\ pc = "push"
    /\ Terminal
    /\ rels.some
    /\ Len(params.text) > 1
    /\ params.text[1] = "<"

\* C17 (unwrap): whenever from_str is at params.into_next_uri().unwrap(),
\* the scanner is in its terminal state, whatever the header, so
\* into_next_uri returns Some and from_str never panics.
C17_UnwrapNeverPanics ==
    /\ pc # "panic"
    /\ pc = "push" => (Terminal /\ into_next_uri(params).some)

\* C17 witness: from_str is at the unwrap of a link-value whose rel
\* parameter was followed by further parameters, which the drain has read.
C17_Witness ==
    /\ pc = "push"
    /\ Terminal
    /\ rels.some
    /\ s = header
    /\ Len(link_values) = 1
    /\ Len(tail) > 1
    /\ tail[1] = ";"

\* ------------------------------------------------------------------------
\* Termination.
\* ------------------------------------------------------------------------

\* Largest number of pieces of arbitrary text of the headers from_str is
\* run to completion on.
MaxLiveTail == 3

\* Before the call: no header yet.
InitLive ==
    /\ link_values = <<>>
    /\ ows = <<>>
    /\ tail = <<>>
    /\ header = <<>>
    /\ s = <<>>
    /\ uri = <<>>
    /\ params = NoParams
    /\ rels = None
    /\ next_links = <<>>
    /\ pc = "call"
    /\ result = Err("")

\* The call of from_str on a header that starts as a serialised
\* link-value and goes on arbitrarily.
Call ==
    /\ pc = "call"
    /\ link_values' \in RawStarts
    /\ tail' \in Tails(MaxLiveTail)
    /\ header' = RenderHeader(link_values', ows) \o tail'
    /\ s' = header'
    /\ pc' = "while"
    /\ UNCHANGED <<ows, uri, params, rels, next_links, result>>

NextLive == Call \/ Next

\* from_str is a synchronous function: once called it keeps taking its
\* next step until it returns.  This is weak fairness of NextLive,
\* WF_vars(NextLive), written out: ENABLED <<NextLive>>_vars is the state
\* predicate it amounts to (a step is possible in every state but those
\* where from_str has returned or panicked), and a step that changes vars
\* is a NextLive step in every behaviour of [][NextLive]_vars.
Fairness == []<>(pc \in {"done", "panic"}) \/ []<><<TRUE>>_vars

SpecLive == InitLive /\ [][NextLive]_vars /\ Fairness

\* C18 (termination): from_str returns, with Ok or an error, on every
\* header; each produced pair strictly shortens the scanner's text or
\* puts the scanner in its terminal state, and each turn of the driver's
\* loop shortens the remaining slice by at least the '<' and the '>' of
\* the link-value it read.
C18_Terminates ==
    /\ <>(pc = "done")
    /\ [][ /\ (Scanning /\ pc' # "done")
                 => (Len(params'.text) < Len(params.text) \/ Terminal')
           /\ (pc = "push" /\ pc' = "while") => Len(s') + 2 <= Len(s) ]_vars

\* C18 witness: from_str has returned Ok after two turns of its loop, the
\* second on the text after a ','.
C18_Witness ==
    /\ pc = "done"
    /\ result.ok
    /\ s = <<>>
    /\ Len(link_values) = 1
    /\ Len(tail) > 1
    /\ tail[1] = ","

\* ------------------------------------------------------------------------
\* from_str as a function of the header, and the ends of the loop.
\* ------------------------------------------------------------------------

\* try_find_map followed by find_map(Result::err) on one scanner: the
\* value of the first rel parameter, the scanner once it answers None, or
\* the first error.
RECURSIVE drain(_, _)
drain(it, found) ==
    LET n == ParamsIter_next(it)
    IN  IF ~n.some
        THEN [ok |-> TRUE, rels |-> found, self |-> it, err |-> ""]
        ELSE IF ~n.item.ok
        THEN [ok |-> FALSE, rels |-> None, self |-> it, err |-> n.item.err]
        ELSE drain(n.self,
                   IF found.some THEN found
                   ELSE rel_closure(n.item.val[1], n.item.val[2]))

\* The loop of from_str from the remaining slice t with the uris pushed
\* so far.
RECURSIVE from_str_loop(_, _)
from_str_loop(t, pushed) ==
    IF is_empty(t) THEN Ok(pushed)
    ELSE LET r == parse_uri(t)
             d == drain(r.val[2], None)
         IN  IF ~r.ok THEN Err(r.err)
             ELSE IF ~d.ok THEN Err(d.err)
             ELSE from_str_loop(into_next_uri(d.self).val,
                                IF is_next(d.rels) THEN Append(pushed, r.val[1])
                                ELSE pushed)

\* NextLinks::from_str.
from_str(h) == from_str_loop(h, <<>>)

\* What follows the last link-value: nothing, or a ',' and then nothing
\* or space/tab only.
TrailingTails ==
    { <<>>, <<",">>, <<",", " ">>, <<",", "\t">>, <<",", " ", "\t">> }

\* The empty header, and the grammar's headers followed by a trailing
\* separator.
InitTrailing ==
    /\ \/ link_values = <<>> /\ tail = <<>>
       \/ link_values \in GrammarHeaders /\ tail \in TrailingTails
    /\ ows \in OwsChoices
    /\ header = RenderHeader(link_values, ows) \o tail
    /\ Start

SpecTrailing == InitTrailing /\ [][Next]_vars

\* C20 (ends of the loop): the empty header gives Ok of the empty
\* sequence, and a header whose last link-value is followed by a ',' and
\* then nothing or only space/tab is accepted and gives what the header
\* without that trailing separator gives.
C20_TrailingSeparator ==
    pc = "done"
        => /\ result.ok
           /\ header = <<>> => result.val = <<>>
           /\ result = from_str(RenderHeader(link_values, ows))

\* C20 witness: a header that ends in a ',' followed by a space and a tab
\* has been parsed, with a uri returned.
C20_Witness ==
    /\ pc = "done"
    /\ result.ok
    /\ result.val # <<>>
    /\ tail = <<",", " ", "\t">>

\* ------------------------------------------------------------------------
\* http-next-link: NextLink::from_str, the single-link variant.
\* ------------------------------------------------------------------------

\* str::trim on the characters the inputs use: space and tab are the
\* white space among them.
trim(x) == trim_end_http_whitespaces(trim_start_http_whitespaces(x))

\* str::ends_with(c).
ends_with(x, c) == Len(x) > 0 /\ x[Len(x)] = c

\* str::split(&[';', ',']): the pieces of x between the occurrences of
\* the characters of cs.
RECURSIVE split_any(_, _)
split_any(x, cs) ==
    LET i == find(x, cs)
    IN  IF i = 0 THEN <<x>>
        ELSE <<SubSeq(x, 1, i - 1)>> \o split_any(From(x, i + 1), cs)

\* strip_quotation: strip_prefix(open).and_then(strip_suffix(close)).
strip_quotation(x, open, close) ==
    IF starts_with(x, open) /\ ends_with(Tail(x), close)
    THEN Some(SubSeq(x, 2, Len(x) - 1))
    ELSE None

\* The messages of error(msg).
IncompleteTargetIri ==
    "Invalid link segment: Found incomplete Target IRI with unclosed '<' and '>'"

EmptyRelations == "Invalid link segment: Found paramter relations but its value is empty"

UnclosedRelQuote == "Invalid link segment: Unclosed \" in parameters rel"

NeitherIriNorParameters == "Invalid link segment: Neither Target IRI nor parameters"

ExpectedTargetIri == "Invalid link segment: Expected Target IRI but found parameters"

\* enum Segment { LinkValue(&str), ParamRels { is_next: bool } }, and the
\* Err a segment is mapped to.
LinkValue(v) == [kind |-> "LinkValue", val |-> v, is_next |-> FALSE, err |-> ""]

ParamRels(b) == [kind |-> "ParamRels", val |-> <<>>, is_next |-> b, err |-> ""]

SegmentErr(e) == [kind |-> "Err", val |-> <<>>, is_next |-> FALSE, err |-> e]

\* rels.split(' ').any(|rel| "next".eq_ignore_ascii_case(rel)).
any_next(r) ==
    \E i \in 1..Len(split(r, " ")) :
        eq_ignore_ascii_case(<<"n", "e", "x", "t">>, split(r, " ")[i])

\* The rel branch of the closure: value is the text after '='.
rel_segment(value) ==
    LET v == trim(value)
        quoted == strip_quotation(v, "\"", "\"")
    IN  IF is_empty(v) THEN SegmentErr(EmptyRelations)
        ELSE IF quoted.some THEN ParamRels(any_next(trim(quoted.val)))
        ELSE IF starts_with(v, "\"") \/ ends_with(v, "\"") THEN SegmentErr(UnclosedRelQuote)
        ELSE ParamRels(any_next(v))

\* The closure given to filter_map, on a trimmed segment: <<>> for None
\* (a parameter that is not rel), else the one Result it gives.
filter_segment(segment) ==
    LET iri == strip_quotation(segment, "<", ">")
        eq == find(segment, {"="})
    IN  IF iri.some THEN <<LinkValue(trim(iri.val))>>
        ELSE IF starts_with(segment, "<") \/ ends_with(segment, ">")
        THEN <<SegmentErr(IncompleteTargetIri)>>
        ELSE IF eq # 0
        THEN IF eq_ignore_ascii_case(<<"r", "e", "l">>, trim(SubSeq(segment, 1, eq - 1)))
             THEN <<rel_segment(From(segment, eq + 1))>>
             ELSE <<>>
        ELSE <<SegmentErr(NeitherIriNorParameters)>>

\* s.trim().split(&[';', ',']).map(str::trim).filter_map(...).
RECURSIVE filter_map_segments(_)
filter_map_segments(pieces) ==
    IF pieces = <<>> THEN <<>>
    ELSE filter_segment(trim(Head(pieces))) \o filter_map_segments(Tail(pieces))

\* .coalesce(...): of adjacent ParamRels only the first is kept.
RECURSIVE coalesce(_)
coalesce(segs) ==
    IF Len(segs) < 2 THEN segs
    ELSE IF segs[1].kind = "ParamRels" /\ segs[2].kind = "ParamRels"
    THEN coalesce(<<segs[1]>> \o Tail(Tail(segs)))
    ELSE <<segs[1]>> \o coalesce(Tail(segs))

\* segments.find_map(Result::err): the first Err among segs, if any.
first_err(segs) ==
    IF \E i \in 1..Len(segs) : segs[i].kind = "Err"
    THEN Some(segs[CHOOSE i \in 1..Len(segs) :
                     segs[i].kind = "Err" /\ \A j \in 1..(i - 1) : segs[j].kind # "Err"].err)
    ELSE None

\* The while-let loop over the peekable segments.  Ok(<<uri>>) is
\* Ok(Self(Some(uri))), Ok(<<>>) is Ok(Self(None)).
RECURSIVE find_next_link(_)
find_next_link(segs) ==
    IF segs = <<>> THEN Ok(<<>>)
    ELSE IF segs[1].kind = "Err" THEN Err(segs[1].err)
    ELSE IF segs[1].kind # "LinkValue" THEN Err(ExpectedTargetIri)
    ELSE IF Len(segs) >= 2 /\ segs[2].kind = "ParamRels"
    THEN IF segs[2].is_next
         THEN IF first_err(Tail(Tail(segs))).some
              THEN Err(first_err(Tail(Tail(segs))).val)
              ELSE Ok(<<segs[1].val>>)
         ELSE find_next_link(Tail(Tail(segs)))
    ELSE find_next_link(Tail(segs))

\* NextLink::from_str.
NextLink_from_str(h) ==
    find_next_link(coalesce(filter_map_segments(split_any(trim(h), {";", ","}))))

\* What follows the serialised link-values: nothing, or a segment that is
\* malformed (a uri with no '>', a parameter with no '=', text that is
\* neither, a quoted value that is not closed).
MalformedTails ==
    { <<>>,
      <<",", "<", "h", ":", "b">>,
      <<";", "x">>,
      <<",", "x">>,
      <<";", "x", "=", "\"", "v">> }

\* Headers of at least one serialised link-value, before the call.
InitNextLink ==
    /\ link_values \in LinkValueLists(MaxLinkValues) \ { <<>> }
    /\ ows \in OwsChoices
    /\ tail \in MalformedTails
    /\ header = RenderHeader(link_values, ows) \o tail
    /\ s = header
    /\ uri = <<>>
    /\ params = NoParams
    /\ rels = None
    /\ next_links = <<>>
    /\ pc = "next_link"
    /\ result = Err("")

\* The call header.parse::<NextLink>().
NextLinkFromStr ==
    /\ pc = "next_link"
    /\ result' = NextLink_from_str(header)
    /\ pc' = "done"
    /\ UNCHANGED <<s, uri, params, rels, next_links>>
    /\ UNCHANGED input

SpecNextLink == InitNextLink /\ [][NextLinkFromStr]_vars

\* The uri, without space/tab around it, of the first link-value whose
\* first rel parameter lists next, as a sequence of at most one uri.
FirstNextUri(lvs) ==
    IF NextUris(lvs) = <<>> THEN <<>> ELSE <<trim(NextUris(lvs)[1])>>

\* C19 (single-link variant): NextLink::from_str yields at most one uri;
\* on a serialised header it yields the uri of the first link-value, in
\* header order, whose first rel parameter lists next, and nothing when
\* there is none; when a malformed segment follows the link-value that
\* matches, the result is an error.
C19_FirstNextLinkOnly ==
    pc = "done"
        => /\ Len(result.val) <= 1
           /\ tail = <<>> => result = Ok(FirstNextUri(link_values))
           /\ (tail # <<>> /\ NextUris(link_values) # <<>>) => ~result.ok

====
